---- MODULE Spec2Model ----
(***************************************************************************)
(* Model of the broadcast bot's storage services:                          *)
(*   ThemeService  (src/core/service/theme_service.py)                     *)
(*   UserService   (src/core/service/user_service.py)                      *)
(*   ConfigService (src/core/service/config_service.py)                    *)
(* over the tables declared in src/db/models.py.                           *)
(*                                                                         *)
(* Every service method is one action: it runs its statements and commits. *)
(* The last call and its return value are kept in op and ret, so that the  *)
(* contract of a method is a predicate on the state right after the call.  *)
(***************************************************************************)
EXTENDS Integers, Sequences, FiniteSets, TLC

----------------------------------------------------------------------------
(* Bounds of the model *)

\* number of Theme rows ever inserted
MaxThemes == 2
\* the clock (datetime.now()) runs over 0..MaxClock
MaxClock == 1
\* calendar days are 0..MaxDay
MaxDay == 1
\* instants in one calendar day
TicksPerDay == 2
\* telegram ids are 1..MaxUsers
MaxUsers == 2
\* number of DeliveryLog rows ever inserted
MaxLogs == 2
\* broadcast task ids are 1..MaxTasks
MaxTasks == 1
\* theme ids beyond the history limit that can be delivered
ExtraThemes == 3
\* number of service calls that run concurrently
MaxCallers == 2
\* number of Config rows ever inserted
MaxConfigRows == 2
\* rate limits an operator sets are 0..MaxRate
MaxRate == 1

----------------------------------------------------------------------------
(* Values *)

\* SQL NULL / Python None in a DateTime column or argument
NullDate == -1
\* SQL NULL / Python None in an Integer column or argument; ids start at 1
NullId == 0
\* SQL NULL / Python None in a String, Text or JSON column or argument
NullStr == "NULL"

Days == 0..MaxDay
\* the instants of the days 0..MaxDay and the midnight after them
AsOfTimes == 0..((MaxDay + 1) * TicksPerDay)

\* A title is a sequence of pieces; the empty sequence is the empty string.
\* The suffix stands for the literal " (копия)" of duplicate_theme.
CopySuffix == <<" (copy)">>

\* Contents a caller passes to create_theme
ContentInputs ==
    { [title |-> <<"a">>, text |-> "x", media |-> NullStr, buttons |-> NullStr],
      [title |-> <<"b">>, text |-> "y", media |-> "photo", buttons |-> "kb"] }

\* Optional[str] argument new_title of duplicate_theme: None, "" or a title
NewTitleInputs ==
    { [given |-> FALSE, v |-> <<>>],
      [given |-> TRUE,  v |-> <<>>],
      [given |-> TRUE,  v |-> <<"c">>] }

\* Python truthiness of an Optional[str]
Truthy(t) == t.given /\ t.v # <<>>

ThemeFields == {"title", "text", "media", "buttons", "schedule_date",
                "is_sent", "created_at", "updated_at"}

VARIABLES
    themes,        \* table themes: id -> row
    nextThemeId,   \* the primary-key sequence of themes
    users,         \* table users: id -> row
    nextUserId,    \* the primary-key sequence of users
    logs,          \* table delivery_logs, in insertion (id) order
    tasks,         \* table broadcast_tasks: id -> row
    now,           \* the clock
    config,        \* table config: id -> row
    nextConfigId,  \* the primary-key sequence of config
    calls,         \* the service calls in flight: caller -> call record
    op,            \* the last service call: its name and arguments
    ret            \* what the last service call returned

vars == <<themes, nextThemeId, users, nextUserId, logs, tasks, now, config,
         nextConfigId, calls, op, ret>>

themeVars == <<themes, nextThemeId>>

----------------------------------------------------------------------------
(* SQL helpers *)

\* a comparison with NULL is not true
SqlLt(a, b) == a # NullDate /\ b # NullDate /\ a < b
SqlLe(a, b) == a # NullDate /\ b # NullDate /\ a <= b
SqlGe(a, b) == a # NullDate /\ b # NullDate /\ a >= b

\* all orders in which the rows S can come back
Perms(S) ==
    { s \in [1..Cardinality(S) -> S] :
        \A i, j \in 1..Cardinality(S) : i # j => s[i] # s[j] }

\* ORDER BY key ASC: rows with equal keys come back in any order
OrderByAsc(S, key) ==
    { s \in Perms(S) : \A i, j \in 1..Len(s) : i < j => key[s[i]] <= key[s[j]] }

\* a function without the key k
Without(f, k) == [x \in DOMAIN f \ {k} |-> f[x]]

----------------------------------------------------------------------------
(* ThemeService *)

\* Theme(...) with the column defaults of the model
NewTheme(title, text, media, buttons, schedule_date) ==
    [ title |-> title, text |-> text, media |-> media, buttons |-> buttons,
      schedule_date |-> schedule_date, is_sent |-> FALSE,
      created_at |-> now, updated_at |-> now ]

create_theme(c, schedule_date) ==
    /\ nextThemeId <= MaxThemes
    /\ themes' = (nextThemeId :> NewTheme(c.title, c.text, c.media, c.buttons,
                                          schedule_date)) @@ themes
    /\ nextThemeId' = nextThemeId + 1
    /\ op' = [name |-> "create_theme"]
    /\ ret' = nextThemeId
    /\ UNCHANGED <<users, nextUserId, logs, tasks, now, config, nextConfigId, calls>>

\* UPDATE themes SET <kw> WHERE id = theme_id
UpdateTheme(theme_id, kw) ==
    [ t \in DOMAIN themes |->
        IF t = theme_id
        THEN [ f \in ThemeFields |->
                 IF f \in DOMAIN kw THEN kw[f] ELSE themes[t][f] ]
        ELSE themes[t] ]

\* the keyword arguments a caller passes to update_theme
KwargsInputs ==
    { [text |-> "z"],
      [schedule_date |-> 0],
      [is_sent |-> FALSE],
      [is_sent |-> TRUE] }

update_theme(theme_id, kwargs) ==
    /\ themes' = UpdateTheme(theme_id, ("updated_at" :> now) @@ kwargs)
    /\ op' = [name |-> "update_theme", theme_id |-> theme_id]
    /\ ret' = IF theme_id \in DOMAIN themes THEN theme_id ELSE NullId
    /\ UNCHANGED <<nextThemeId, users, nextUserId, logs, tasks, now, config, nextConfigId, calls>>

delete_theme(theme_id) ==
    /\ themes' = Without(themes, theme_id)
    /\ op' = [name |-> "delete_theme", theme_id |-> theme_id]
    /\ ret' = (theme_id \in DOMAIN themes)
    /\ UNCHANGED <<nextThemeId, users, nextUserId, logs, tasks, now, config, nextConfigId, calls>>

mark_as_sent(theme_id) ==
    /\ themes' = UpdateTheme(theme_id, [is_sent |-> TRUE, updated_at |-> now])
    /\ op' = [name |-> "mark_as_sent", theme_id |-> theme_id]
    /\ ret' = (theme_id \in DOMAIN themes)
    /\ UNCHANGED <<nextThemeId, users, nextUserId, logs, tasks, now, config, nextConfigId, calls>>

schedule_theme(theme_id, schedule_date) ==
    /\ themes' = UpdateTheme(theme_id, [schedule_date |-> schedule_date,
                                        updated_at |-> now])
    /\ op' = [name |-> "schedule_theme", theme_id |-> theme_id]
    /\ ret' = (theme_id \in DOMAIN themes)
    /\ UNCHANGED <<nextThemeId, users, nextUserId, logs, tasks, now, config, nextConfigId, calls>>

unschedule_theme(theme_id) ==
    /\ themes' = UpdateTheme(theme_id, [schedule_date |-> NullDate,
                                        updated_at |-> now])
    /\ op' = [name |-> "unschedule_theme", theme_id |-> theme_id]
    /\ ret' = (theme_id \in DOMAIN themes)
    /\ UNCHANGED <<nextThemeId, users, nextUserId, logs, tasks, now, config, nextConfigId, calls>>

\* the rows of the FIFO queue: no schedule date, not sent, not excluded
\* ("if exclude_ids:" skips the exclusion for None and for an empty list)
QueueFilter(t, exclude_ids) ==
    /\ themes[t].schedule_date = NullDate
    /\ themes[t].is_sent = FALSE
    /\ (exclude_ids # {} => t \notin exclude_ids)

\* mutant: the queue is read newest first
QueueOrderKey_desc(t) == 0 - themes[t].created_at

\* ORDER BY created_at ASC
QueueOrderKey(t) == themes[t].created_at

\* LIMIT 1 and scalar_one_or_none(): the first row, or None
FirstOrNone(rows) ==
    IF \E s \in rows : Len(s) > 0 THEN { s[1] : s \in rows } ELSE { NullId }

get_next_queue_theme(exclude_ids) ==
    /\ \E r \in FirstOrNone(OrderByAsc(
                 { t \in DOMAIN themes : QueueFilter(t, exclude_ids) },
                 [t \in DOMAIN themes |-> QueueOrderKey(t)])) : ret' = r
    /\ op' = [name |-> "get_next_queue_theme", exclude_ids |-> exclude_ids]
    /\ UNCHANGED <<themes, nextThemeId, users, nextUserId, logs, tasks, now, config, nextConfigId, calls>>

\* datetime.combine(target_date, datetime.min.time())
StartOfDay(d) == d * TicksPerDay

\* mutant: the day's end is taken to be the next midnight
EndOfDay_next(d) == (d + 1) * TicksPerDay

\* datetime.combine(target_date, datetime.max.time()): the day's last instant
EndOfDay(d) == d * TicksPerDay + (TicksPerDay - 1)

ScheduleKey(t) == themes[t].schedule_date

ScheduledFilter(t, target_date) ==
    /\ SqlGe(themes[t].schedule_date, StartOfDay(target_date))
    /\ SqlLe(themes[t].schedule_date, EndOfDay(target_date))
    /\ themes[t].is_sent = FALSE

get_scheduled_themes_for_date(target_date) ==
    /\ ret' \in OrderByAsc({ t \in DOMAIN themes : ScheduledFilter(t, target_date) },
                           [t \in DOMAIN themes |-> ScheduleKey(t)])
    /\ op' = [name |-> "get_scheduled_themes_for_date", target_date |-> target_date]
    /\ UNCHANGED <<themes, nextThemeId, users, nextUserId, logs, tasks, now, config, nextConfigId, calls>>

\* mutant: a theme scheduled exactly at current_datetime counts as overdue
OverdueFilter_le(t, current_datetime) ==
    /\ SqlLe(themes[t].schedule_date, current_datetime)
    /\ themes[t].is_sent = FALSE

OverdueFilter(t, current_datetime) ==
    /\ SqlLt(themes[t].schedule_date, current_datetime)
    /\ themes[t].is_sent = FALSE

get_overdue_themes(current_datetime) ==
    /\ ret' \in OrderByAsc({ t \in DOMAIN themes : OverdueFilter(t, current_datetime) },
                           [t \in DOMAIN themes |-> ScheduleKey(t)])
    /\ op' = [name |-> "get_overdue_themes", current_datetime |-> current_datetime]
    /\ UNCHANGED <<themes, nextThemeId, users, nextUserId, logs, tasks, now, config, nextConfigId, calls>>

\* mutant: the copy keeps the original's schedule date
DuplicateRow_keepdate(original, new_title) ==
    NewTheme(IF Truthy(new_title) THEN new_title.v ELSE original.title \o CopySuffix,
             original.text, original.media, original.buttons,
             original.schedule_date)

\* the Theme(...) duplicate_theme builds from the original
DuplicateRow(original, new_title) ==
    NewTheme(IF Truthy(new_title) THEN new_title.v ELSE original.title \o CopySuffix,
             original.text, original.media, original.buttons,
             NullDate)

duplicate_theme(theme_id, new_title) ==
    /\ op' = [name |-> "duplicate_theme", theme_id |-> theme_id,
              new_title |-> new_title]
    /\ IF theme_id \notin DOMAIN themes
       THEN /\ ret' = NullId
            /\ UNCHANGED themeVars
       ELSE /\ nextThemeId <= MaxThemes
            /\ themes' = (nextThemeId :> DuplicateRow(themes[theme_id], new_title))
                            @@ themes
            /\ nextThemeId' = nextThemeId + 1
            /\ ret' = nextThemeId
    /\ UNCHANGED <<users, nextUserId, logs, tasks, now, config, nextConfigId, calls>>

\* time passes
Tick ==
    /\ now < MaxClock
    /\ now' = now + 1
    /\ op' = [name |-> "tick"]
    /\ ret' = NullId
    /\ UNCHANGED <<themes, nextThemeId, users, nextUserId, logs, tasks, config, nextConfigId, calls>>

----------------------------------------------------------------------------
(* UserService *)

\* the history keeps this many theme ids
HistoryLimit == 100

TelegramIds == 1..MaxUsers
TaskIds == 1..MaxTasks

\* the profile fields Telegram reports on a contact
ProfileInputs ==
    { [username |-> NullStr, first_name |-> NullStr, last_name |-> NullStr],
      [username |-> "u", first_name |-> "f", last_name |-> "l"] }

\* User(...) with the column defaults of the model
NewUser(telegram_id, profile) ==
    [ telegram_id |-> telegram_id,
      username |-> profile.username,
      first_name |-> profile.first_name,
      last_name |-> profile.last_name,
      is_active |-> TRUE,
      is_subscribed |-> FALSE,
      subscriptions |-> <<>>,
      registration_date |-> now,
      last_delivery_date |-> NullDate,
      daily_theme_history |-> <<>> ]

UserFields == {"telegram_id", "username", "first_name", "last_name", "is_active",
               "is_subscribed", "subscriptions", "registration_date",
               "last_delivery_date", "daily_theme_history"}

\* SELECT ... WHERE telegram_id = :telegram_id
UsersByTelegramId(telegram_id) ==
    { u \in DOMAIN users : users[u].telegram_id = telegram_id }

\* scalar_one_or_none() of that query (telegram_id is unique)
get_user_by_telegram_id(telegram_id) ==
    IF UsersByTelegramId(telegram_id) = {}
    THEN NullId
    ELSE CHOOSE u \in UsersByTelegramId(telegram_id) : TRUE

\* UPDATE users SET <kw> WHERE telegram_id = :telegram_id
UpdateUser(telegram_id, kw) ==
    [ u \in DOMAIN users |->
        IF users[u].telegram_id = telegram_id
        THEN [ f \in UserFields |->
                 IF f \in DOMAIN kw THEN kw[f] ELSE users[u][f] ]
        ELSE users[u] ]

\* mutant: a later contact makes the user reachable again
get_or_create_user_reactivate(telegram_id, profile) ==
    LET user == get_user_by_telegram_id(telegram_id) IN
    /\ op' = [name |-> "get_or_create_user", telegram_id |-> telegram_id]
    /\ IF user # NullId
       THEN /\ users' = UpdateUser(telegram_id, profile @@ [is_active |-> TRUE])
            /\ nextUserId' = nextUserId
            /\ ret' = user
       ELSE /\ users' = (nextUserId :> NewUser(telegram_id, profile)) @@ users
            /\ nextUserId' = nextUserId + 1
            /\ ret' = nextUserId
    /\ UNCHANGED <<themes, nextThemeId, logs, tasks, now, config, nextConfigId, calls>>

get_or_create_user(telegram_id, profile) ==
    LET user == get_user_by_telegram_id(telegram_id) IN
    /\ op' = [name |-> "get_or_create_user", telegram_id |-> telegram_id]
    /\ IF user # NullId
       THEN /\ users' =
                 IF \/ users[user].username # profile.username
                    \/ users[user].first_name # profile.first_name
                    \/ users[user].last_name # profile.last_name
                 THEN UpdateUser(telegram_id, profile)
                 ELSE users
            /\ nextUserId' = nextUserId
            /\ ret' = user
       ELSE /\ users' = (nextUserId :> NewUser(telegram_id, profile)) @@ users
            /\ nextUserId' = nextUserId + 1
            /\ ret' = nextUserId
    /\ UNCHANGED <<themes, nextThemeId, logs, tasks, now, config, nextConfigId, calls>>

update_user_subscriptions(telegram_id, subscriptions) ==
    /\ users' = UpdateUser(telegram_id, [subscriptions |-> subscriptions])
    /\ op' = [name |-> "update_user_subscriptions", telegram_id |-> telegram_id]
    /\ ret' = (UsersByTelegramId(telegram_id) # {})
    /\ UNCHANGED <<themes, nextThemeId, nextUserId, logs, tasks, now, config, nextConfigId, calls>>

update_subscription_status(telegram_id, is_subscribed) ==
    /\ users' = UpdateUser(telegram_id, [is_subscribed |-> is_subscribed])
    /\ op' = [name |-> "update_subscription_status", telegram_id |-> telegram_id]
    /\ ret' = (UsersByTelegramId(telegram_id) # {})
    /\ UNCHANGED <<themes, nextThemeId, nextUserId, logs, tasks, now, config, nextConfigId, calls>>

\* mutant: the audience is every subscribed user, reachable or not
SubscribedFilter_anyactive(u) == users[u].is_subscribed = TRUE

\* WHERE is_subscribed = true AND is_active = true
SubscribedFilter(u) ==
    /\ users[u].is_subscribed = TRUE
    /\ users[u].is_active = TRUE

\* no ORDER BY: the rows come back in any order
get_subscribed_users ==
    /\ ret' \in Perms({ u \in DOMAIN users : SubscribedFilter(u) })
    /\ op' = [name |-> "get_subscribed_users"]
    /\ UNCHANGED <<themes, nextThemeId, users, nextUserId, logs, tasks, now, config, nextConfigId, calls>>

\* history[-n:]
LastN(h, n) == IF Len(h) <= n THEN h ELSE SubSeq(h, Len(h) - n + 1, Len(h))

\* mutant: the cut keeps the first ids and drops the newest
AppendHistory_keepfirst(history, theme_id) ==
    IF \E i \in DOMAIN history : history[i] = theme_id
    THEN history
    ELSE IF Len(history) + 1 > HistoryLimit
         THEN SubSeq(Append(history, theme_id), 1, HistoryLimit)
         ELSE Append(history, theme_id)

\* the history add_theme_to_history stores
AppendHistory(history, theme_id) ==
    IF \E i \in DOMAIN history : history[i] = theme_id
    THEN history
    ELSE IF Len(history) + 1 > HistoryLimit
         THEN LastN(Append(history, theme_id), HistoryLimit)
         ELSE Append(history, theme_id)

add_theme_to_history(telegram_id, theme_id) ==
    LET user == get_user_by_telegram_id(telegram_id) IN
    /\ op' = [name |-> "add_theme_to_history", telegram_id |-> telegram_id,
              theme_id |-> theme_id]
    /\ IF user = NullId
       THEN /\ ret' = FALSE
            /\ users' = users
       ELSE /\ ret' = TRUE
            /\ users' = UpdateUser(telegram_id,
                 [daily_theme_history |->
                      AppendHistory(users[user].daily_theme_history, theme_id),
                  last_delivery_date |-> now])
    /\ UNCHANGED <<themes, nextThemeId, nextUserId, logs, tasks, now, config, nextConfigId, calls>>

\* mutant: an unreachable user is deleted
deactivate_user_delete(telegram_id) ==
    /\ users' = [ u \in DOMAIN users \ UsersByTelegramId(telegram_id) |-> users[u] ]
    /\ op' = [name |-> "deactivate_user", telegram_id |-> telegram_id]
    /\ ret' = (UsersByTelegramId(telegram_id) # {})
    /\ UNCHANGED <<themes, nextThemeId, nextUserId, logs, tasks, now, config, nextConfigId, calls>>

deactivate_user(telegram_id) ==
    /\ users' = UpdateUser(telegram_id, [is_active |-> FALSE])
    /\ op' = [name |-> "deactivate_user", telegram_id |-> telegram_id]
    /\ ret' = (UsersByTelegramId(telegram_id) # {})
    /\ UNCHANGED <<themes, nextThemeId, nextUserId, logs, tasks, now, config, nextConfigId, calls>>

\* BroadcastTask row with the column defaults of the model
NewTask ==
    [ status |-> "pending", sent_count |-> 0, delivered_count |-> 0, fail_count |-> 0 ]

\* the outcomes a dispatcher records: message_type, status, error_message
DeliveryInputs ==
    { [message_type |-> "broadcast", status |-> "sent", error_message |-> NullStr],
      [message_type |-> "broadcast", status |-> "failed", error_message |-> "timeout"],
      [message_type |-> "daily_theme", status |-> "blocked",
       error_message |-> "bot was blocked by the user"] }

\* DeliveryLog(...) as log_delivery builds it
NewLog(user_id, telegram_id, d, broadcast_task_id) ==
    [ broadcast_task_id |-> broadcast_task_id,
      user_id |-> user_id,
      telegram_id |-> telegram_id,
      message_type |-> d.message_type,
      status |-> d.status,
      error_message |-> d.error_message,
      sent_at |-> now ]

\* delivery_logs.user_id is NOT NULL: the INSERT of a row without it fails
InsertLogFails(log) == log.user_id = NullId

log_delivery(telegram_id, d, broadcast_task_id) ==
    LET user == get_user_by_telegram_id(telegram_id)
        log == NewLog(user, telegram_id, d, broadcast_task_id)
    IN
    /\ op' = [name |-> "log_delivery", telegram_id |-> telegram_id, d |-> d,
              broadcast_task_id |-> broadcast_task_id]
    /\ IF InsertLogFails(log)
       THEN /\ ret' = "IntegrityError"
            /\ logs' = logs
       ELSE /\ Len(logs) < MaxLogs
            /\ ret' = "None"
            /\ logs' = Append(logs, log)
    /\ UNCHANGED <<themes, nextThemeId, users, nextUserId, tasks, now, config, nextConfigId, calls>>

----------------------------------------------------------------------------
(* UserService calls that run concurrently, each in a session of its own.
   A call gives way to the others at every await, so each statement it sends
   to the database is a step. *)

Callers == 1..MaxCallers

\* caller c has no call in flight: its last one, if any, has returned
Idle(c) == c \in DOMAIN calls => calls[c].pc = "done"

\* the record of caller c with some fields replaced
Advance(c, fields) == [calls EXCEPT ![c] = fields @@ calls[c]]

\* lines 122-126: the SELECT of add_theme_to_history and the history it read
add_theme_to_history_read(c, telegram_id, theme_id) ==
    LET user == get_user_by_telegram_id(telegram_id) IN
    /\ Idle(c)
    /\ calls' = (c :> [ name |-> "add_theme_to_history",
                        telegram_id |-> telegram_id,
                        theme_id |-> theme_id,
                        user |-> user,
                        history |-> IF user = NullId THEN <<>>
                                    ELSE users[user].daily_theme_history,
                        pc |-> IF user = NullId THEN "done" ELSE "update",
                        ret |-> IF user = NullId THEN "False" ELSE NullStr ])
                  @@ calls
    /\ op' = [name |-> "add_theme_to_history.select", caller |-> c]
    /\ UNCHANGED <<themes, nextThemeId, users, nextUserId, logs, tasks, now,
                   config, nextConfigId, ret>>

\* lines 127-142: the UPDATE stores the history computed from the one read
add_theme_to_history_write(c) ==
    /\ c \in DOMAIN calls
    /\ calls[c].name = "add_theme_to_history"
    /\ calls[c].pc = "update"
    /\ users' = UpdateUser(calls[c].telegram_id,
                  [daily_theme_history |->
                       AppendHistory(calls[c].history, calls[c].theme_id),
                   last_delivery_date |-> now])
    /\ calls' = Advance(c, [pc |-> "done", ret |-> "True"])
    /\ op' = [name |-> "add_theme_to_history.update", caller |-> c]
    /\ UNCHANGED <<themes, nextThemeId, nextUserId, logs, tasks, now,
                   config, nextConfigId, ret>>

\* lines 21-30: the SELECT of get_or_create_user and the branch it takes
get_or_create_user_select(c, telegram_id, profile) ==
    LET user == get_user_by_telegram_id(telegram_id)
        changed == \/ users[user].username # profile.username
                   \/ users[user].first_name # profile.first_name
                   \/ users[user].last_name # profile.last_name
    IN
    /\ Idle(c)
    /\ calls' = (c :> [ name |-> "get_or_create_user",
                        telegram_id |-> telegram_id,
                        profile |-> profile,
                        user |-> user,
                        pc |-> IF user = NullId THEN "insert"
                               ELSE IF changed THEN "update" ELSE "done",
                        ret |-> IF user # NullId /\ ~changed
                                THEN ToString(user) ELSE NullStr ])
                  @@ calls
    /\ op' = [name |-> "get_or_create_user.select", caller |-> c]
    /\ UNCHANGED <<themes, nextThemeId, users, nextUserId, logs, tasks, now,
                   config, nextConfigId, ret>>

\* lines 32-42: the UPDATE of the profile fields; the row read is returned
get_or_create_user_update(c) ==
    /\ c \in DOMAIN calls
    /\ calls[c].name = "get_or_create_user"
    /\ calls[c].pc = "update"
    /\ users' = UpdateUser(calls[c].telegram_id, calls[c].profile)
    /\ calls' = Advance(c, [pc |-> "done", ret |-> ToString(calls[c].user)])
    /\ op' = [name |-> "get_or_create_user.update", caller |-> c]
    /\ UNCHANGED <<themes, nextThemeId, nextUserId, logs, tasks, now,
                   config, nextConfigId, ret>>

\* mutant: the column has no unique index
UniqueViolation_none(telegram_id) == FALSE

\* users.telegram_id is unique: the INSERT of a second row for it fails
UniqueViolation(telegram_id) == UsersByTelegramId(telegram_id) # {}

\* lines 45-56: the INSERT at commit; IntegrityError is not caught
get_or_create_user_insert(c) ==
    /\ c \in DOMAIN calls
    /\ calls[c].name = "get_or_create_user"
    /\ calls[c].pc = "insert"
    /\ IF UniqueViolation(calls[c].telegram_id)
       THEN /\ calls' = Advance(c, [pc |-> "done", ret |-> "IntegrityError"])
            /\ UNCHANGED <<users, nextUserId>>
       ELSE /\ users' = (nextUserId :> NewUser(calls[c].telegram_id, calls[c].profile))
                            @@ users
            /\ nextUserId' = nextUserId + 1
            /\ calls' = Advance(c, [pc |-> "done", ret |-> ToString(nextUserId)])
    /\ op' = [name |-> "get_or_create_user.insert", caller |-> c]
    /\ UNCHANGED <<themes, nextThemeId, logs, tasks, now, config, nextConfigId, ret>>

----------------------------------------------------------------------------
(* ConfigService *)

\* the keys the typed getters read
ConfigKeys == {"required_channels", "daily_broadcast_time", "timezone",
               "rate_limit", "welcome_message", "subscription_required_message"}

\* DEFAULT_CONFIG[key]["value"] of the two message keys; the strings stand for
\* the Russian texts
DefaultMessage(key) ==
    IF key = "welcome_message"
    THEN "default welcome text"
    ELSE "default subscription required text"

\* the fallback literals of the typed getters
DefaultRateLimit == 30
DefaultBroadcastTime == "09:00"
DefaultTimezone == "Europe/Moscow"

\* SELECT ... WHERE key = :key
ConfigByKey(key) == { c \in DOMAIN config : config[c].key = key }

\* mutant: a key that is already stored keeps its old value
UpsertConfig_donothing(key, value, description) ==
    IF ConfigByKey(key) # {}
    THEN config
    ELSE (nextConfigId :> [key |-> key, value |-> value,
                           description |-> description, updated_at |-> now])
            @@ config

\* INSERT ... ON CONFLICT (key) DO UPDATE SET value, description
UpsertConfig(key, value, description) ==
    IF ConfigByKey(key) # {}
    THEN [ c \in DOMAIN config |->
             IF config[c].key = key
             THEN [config[c] EXCEPT !.value = value, !.description = description]
             ELSE config[c] ]
    ELSE (nextConfigId :> [key |-> key, value |-> value,
                           description |-> description, updated_at |-> now])
            @@ config

\* the statements of set_config, on behalf of the method called
SetConfigAs(method, key, value, description) ==
    /\ ConfigByKey(key) = {} => nextConfigId <= MaxConfigRows
    /\ config' = UpsertConfig(key, value, description)
    /\ nextConfigId' = IF ConfigByKey(key) = {} THEN nextConfigId + 1 ELSE nextConfigId
    /\ op' = [name |-> method, key |-> key, value |-> value]
    /\ ret' = NullStr
    /\ UNCHANGED <<themes, nextThemeId, users, nextUserId, logs, tasks, now, calls>>

set_config(key, value, description) == SetConfigAs("set_config", key, value, description)

\* scalar_one_or_none() of SELECT value WHERE key = :key
StoredValue(key) ==
    IF ConfigByKey(key) = {}
    THEN NullStr
    ELSE config[CHOOSE c \in ConfigByKey(key) : TRUE].value

\* a query: nothing is written
ReadConfigAs(method, key, result) ==
    /\ op' = [name |-> method, key |-> key]
    /\ ret' = result
    /\ UNCHANGED <<themes, nextThemeId, users, nextUserId, logs, tasks, now,
                   config, nextConfigId, calls>>

get_config(key) == ReadConfigAs("get_config", key, StoredValue(key))

delete_config(key) ==
    /\ config' = [ c \in DOMAIN config \ ConfigByKey(key) |-> config[c] ]
    /\ op' = [name |-> "delete_config", key |-> key]
    /\ ret' = (ConfigByKey(key) # {})
    /\ UNCHANGED <<themes, nextThemeId, users, nextUserId, logs, tasks, now,
                   nextConfigId, calls>>

\* Python truthiness of an Optional[str]: None and "" are false
TruthyStr(v) == v # NullStr /\ v # ""

\* the integers whose decimal text can be stored as a rate limit
RateInputs == 0..MaxRate

\* int(rate_str) succeeds
IsIntText(v) == \E n \in RateInputs : ToString(n) = v

\* int(rate_str)
IntOf(v) == CHOOSE n \in RateInputs : ToString(n) = v

get_rate_limit ==
    LET rate_str == StoredValue("rate_limit") IN
    ReadConfigAs("get_rate_limit", "rate_limit",
        IF ~TruthyStr(rate_str) THEN DefaultRateLimit
        ELSE IF IsIntText(rate_str) THEN IntOf(rate_str)
        ELSE DefaultRateLimit)

set_rate_limit(rate) ==
    SetConfigAs("set_rate_limit", "rate_limit", ToString(rate),
                "rate limit per second")

get_daily_broadcast_time ==
    LET time_str == StoredValue("daily_broadcast_time") IN
    ReadConfigAs("get_daily_broadcast_time", "daily_broadcast_time",
        IF TruthyStr(time_str) THEN time_str ELSE DefaultBroadcastTime)

set_daily_broadcast_time(time_str) ==
    SetConfigAs("set_daily_broadcast_time", "daily_broadcast_time", time_str,
                "daily broadcast time (HH:MM)")

get_timezone ==
    LET timezone == StoredValue("timezone") IN
    ReadConfigAs("get_timezone", "timezone",
        IF TruthyStr(timezone) THEN timezone ELSE DefaultTimezone)

set_timezone(timezone) ==
    SetConfigAs("set_timezone", "timezone", timezone, "timezone of the broadcasts")

\* the channel lists an operator sets
ChannelInputs == { <<>>, <<-100, 5>> }

\* json.dumps(channels)
JsonDumps(channels) == IF channels = <<>> THEN "[]" ELSE "[-100, 5]"

\* json.loads(channels_json) succeeds
IsJsonList(v) == \E l \in ChannelInputs : JsonDumps(l) = v

\* json.loads(channels_json); every element is an integer, so the digit filter
\* keeps them all
JsonLoads(v) == CHOOSE l \in ChannelInputs : JsonDumps(l) = v

get_required_channels ==
    LET channels_json == StoredValue("required_channels") IN
    ReadConfigAs("get_required_channels", "required_channels",
        IF ~TruthyStr(channels_json) THEN <<>>
        ELSE IF IsJsonList(channels_json) THEN JsonLoads(channels_json)
        ELSE <<>>)

set_required_channels(channels) ==
    SetConfigAs("set_required_channels", "required_channels", JsonDumps(channels),
                "required channels")

get_welcome_message ==
    LET message == StoredValue("welcome_message") IN
    ReadConfigAs("get_welcome_message", "welcome_message",
        IF TruthyStr(message) THEN message ELSE DefaultMessage("welcome_message"))

set_welcome_message(message) ==
    SetConfigAs("set_welcome_message", "welcome_message", message,
                "welcome message")

get_subscription_required_message ==
    LET message == StoredValue("subscription_required_message") IN
    ReadConfigAs("get_subscription_required_message", "subscription_required_message",
        IF TruthyStr(message) THEN message
        ELSE DefaultMessage("subscription_required_message"))

----------------------------------------------------------------------------
(* Specifications *)

ThemeIds == 1..MaxThemes

Init ==
    /\ themes = <<>>
    /\ nextThemeId = 1
    /\ users = <<>>
    /\ nextUserId = 1
    /\ logs = <<>>
    /\ tasks = [t \in TaskIds |-> NewTask]
    /\ now = 0
    /\ config = <<>>
    /\ nextConfigId = 1
    /\ calls = <<>>
    /\ op = [name |-> "init"]
    /\ ret = NullId

ContentA == [title |-> <<"a">>, text |-> "x", media |-> NullStr, buttons |-> NullStr]

\* The FIFO queue under a running clock
NextQueue ==
    \/ \E d \in {NullDate, 0} : create_theme(ContentA, d)
    \/ \E t \in ThemeIds : delete_theme(t)
    \/ \E t \in ThemeIds : mark_as_sent(t)
    \/ \E t \in ThemeIds : schedule_theme(t, 0)
    \/ \E t \in ThemeIds : unschedule_theme(t)
    \/ \E ex \in SUBSET ThemeIds : get_next_queue_theme(ex)
    \/ Tick

SpecQueue == Init /\ [][NextQueue]_vars

\* the first and the last instant of every day
DayEdges == { StartOfDay(d) : d \in Days } \cup { EndOfDay(d) : d \in Days }

\* The schedule: themes dated on the edges of the days 0..MaxDay
NextSchedule ==
    \/ \E d \in DayEdges \cup {NullDate} : create_theme(ContentA, d)
    \/ \E t \in ThemeIds, kw \in {[schedule_date |-> 0], [is_sent |-> TRUE]} :
          update_theme(t, kw)
    \/ \E t \in ThemeIds : delete_theme(t)
    \/ \E t \in ThemeIds : mark_as_sent(t)
    \/ \E t \in ThemeIds, d \in DayEdges : schedule_theme(t, d)
    \/ \E t \in ThemeIds : unschedule_theme(t)
    \/ \E t \in ThemeIds : duplicate_theme(t, [given |-> TRUE, v |-> <<"a">>])
    \/ \E d \in Days : get_scheduled_themes_for_date(d)
    \/ \E a \in DayEdges \cup {StartOfDay(MaxDay + 1)} : get_overdue_themes(a)

SpecSchedule == Init /\ [][NextSchedule]_vars

\* Theme life cycle: create, edit, send, copy, delete
NextTheme ==
    \/ \E c \in ContentInputs, d \in {NullDate, 0} : create_theme(c, d)
    \/ \E t \in ThemeIds, kw \in KwargsInputs : update_theme(t, kw)
    \/ \E t \in ThemeIds : delete_theme(t)
    \/ \E t \in ThemeIds : mark_as_sent(t)
    \/ \E t \in ThemeIds : schedule_theme(t, 1)
    \/ \E t \in ThemeIds : unschedule_theme(t)
    \/ \E t \in ThemeIds, nt \in NewTitleInputs : duplicate_theme(t, nt)

SpecTheme == Init /\ [][NextTheme]_vars

\* The audience: contacts, subscription changes, deactivation
NextUser ==
    \/ \E t \in TelegramIds, p \in ProfileInputs : get_or_create_user(t, p)
    \/ \E t \in TelegramIds : update_user_subscriptions(t, <<10>>)
    \/ \E t \in TelegramIds, b \in BOOLEAN : update_subscription_status(t, b)
    \/ \E t \in TelegramIds : deactivate_user(t)
    \/ get_subscribed_users

SpecUser == Init /\ [][NextUser]_vars

\* the theme ids delivered to user 1: 1, 2, 3, ... up to two short of the limit,
\* then the next ids in any order; theme 1 can be delivered again at any time
DeliveredNext ==
    LET user == get_user_by_telegram_id(1)
        n == IF user = NullId THEN 0 ELSE Len(users[user].daily_theme_history)
    IN  IF n < HistoryLimit - 2
        THEN {1, n + 1}
        ELSE {1} \cup ((HistoryLimit - 1)..(HistoryLimit + ExtraThemes))

\* One recipient's history filling up and overflowing
NextHistory ==
    \/ \E p \in ProfileInputs : get_or_create_user(1, p)
    \/ \E th \in DeliveredNext : add_theme_to_history(1, th)

SpecHistory == Init /\ [][NextHistory]_vars

\* Delivery outcomes recorded for known and unknown recipients
NextDelivery ==
    \/ \E t \in TelegramIds :
          get_or_create_user(t, [username |-> "u", first_name |-> "f", last_name |-> "l"])
    \/ \E t \in TelegramIds, d \in DeliveryInputs, b \in TaskIds \cup {NullId} :
          log_delivery(t, d, b)

SpecDelivery == Init /\ [][NextDelivery]_vars

\* The life of one recipient: contacts, subscription changes, deliveries and
\* deactivation
NextLifecycle ==
    \/ \E p \in ProfileInputs : get_or_create_user(1, p)
    \/ \E b \in BOOLEAN : update_subscription_status(1, b)
    \/ update_user_subscriptions(1, <<10>>)
    \/ add_theme_to_history(1, 1)
    \/ \E d \in DeliveryInputs : log_delivery(1, d, NullId)
    \/ deactivate_user(1)
    \/ get_subscribed_users

SpecLifecycle == Init /\ [][NextLifecycle]_vars

\* Deliveries to one recipient recorded by concurrent calls
NextConcurrentHistory ==
    \/ \E p \in ProfileInputs : get_or_create_user(1, p)
    \/ \E c \in Callers, th \in 1..MaxCallers : add_theme_to_history_read(c, 1, th)
    \/ \E c \in Callers : add_theme_to_history_write(c)

SpecConcurrentHistory == Init /\ [][NextConcurrentHistory]_vars

\* Contacts of two Telegram users handled by concurrent calls
NextFirstContact ==
    \/ \E c \in Callers, t \in {1, 2}, p \in ProfileInputs :
          get_or_create_user_select(c, t, p)
    \/ \E c \in Callers : get_or_create_user_update(c)
    \/ \E c \in Callers : get_or_create_user_insert(c)

SpecFirstContact == Init /\ [][NextFirstContact]_vars

\* Settings written, deleted and read
NextConfig ==
    \/ \E k \in {"rate_limit", "required_channels"}, v \in {"abc", "", NullStr} :
          set_config(k, v, NullStr)
    \/ \E k \in ConfigKeys : delete_config(k)
    \/ \E k \in ConfigKeys : get_config(k)
    \/ \E r \in RateInputs : set_rate_limit(r)
    \/ \E ch \in ChannelInputs : set_required_channels(ch)
    \/ set_daily_broadcast_time("10:30")
    \/ set_timezone("UTC")
    \/ set_welcome_message("hello")
    \/ get_rate_limit
    \/ get_required_channels
    \/ get_daily_broadcast_time
    \/ get_timezone
    \/ get_welcome_message
    \/ get_subscription_required_message

SpecConfig == Init /\ [][NextConfig]_vars

Next == NextQueue \/ NextSchedule \/ NextTheme \/ NextUser \/ NextHistory \/ NextDelivery
           \/ NextLifecycle \/ NextConcurrentHistory \/ NextFirstContact \/ NextConfig

Spec == Init /\ [][Next]_vars

----------------------------------------------------------------------------
(* Properties of ThemeService *)

Range(s) == { s[i] : i \in DOMAIN s }
NoDuplicates(s) == \A i, j \in DOMAIN s : i # j => s[i] # s[j]

\* the calendar day an instant falls on
DayOf(ts) == ts \div TicksPerDay

\* theme t of table tbl is unsent and dated strictly before asOf
OverdueIn(tbl, t, asOf) ==
    /\ t \in DOMAIN tbl
    /\ ~tbl[t].is_sent
    /\ tbl[t].schedule_date # NullDate
    /\ tbl[t].schedule_date < asOf

\* theme t of table tbl is unsent and dated on day d
DueIn(tbl, t, d) ==
    /\ t \in DOMAIN tbl
    /\ ~tbl[t].is_sent
    /\ tbl[t].schedule_date # NullDate
    /\ DayOf(tbl[t].schedule_date) = d

\* C1: get_next_queue_theme returns a theme of smallest created_at among the
\* unscheduled, unsent themes whose id is not excluded, and None exactly when
\* there is no such theme.
C1_NextQueuedIsOldest ==
    op.name = "get_next_queue_theme" =>
        LET cand == { t \in DOMAIN themes :
                        /\ themes[t].schedule_date = NullDate
                        /\ ~themes[t].is_sent
                        /\ t \notin op.exclude_ids }
        IN  /\ (ret = NullId) <=> (cand = {})
            /\ ret # NullId =>
                 /\ ret \in cand
                 /\ \A c \in cand : themes[ret].created_at <= themes[c].created_at

\* C1 witness: two queued themes, the earlier-created one is returned
C1_Witness ==
    /\ op.name = "get_next_queue_theme"
    /\ ret # NullId
    /\ \E c \in DOMAIN themes :
          /\ c # ret
          /\ themes[c].schedule_date = NullDate
          /\ ~themes[c].is_sent
          /\ c \notin op.exclude_ids
          /\ themes[c].created_at > themes[ret].created_at

\* C2: the sent flag never goes back to false and a sent theme is never
\* changed (nor removed) by any operation.
C2_SentIsImmutable ==
    [][ \A t \in DOMAIN themes :
          themes[t].is_sent => (t \in DOMAIN themes' /\ themes'[t] = themes[t]) ]_vars

\* C6: get_scheduled_themes_for_date(d) returns exactly the unsent themes dated
\* on day d, each once, in ascending schedule_date order.
C6_DueOnExact ==
    op.name = "get_scheduled_themes_for_date" =>
        /\ NoDuplicates(ret)
        /\ Range(ret) = { t \in DOMAIN themes : DueIn(themes, t, op.target_date) }
        /\ \A i, j \in DOMAIN ret :
              i < j => themes[ret[i]].schedule_date <= themes[ret[j]].schedule_date

\* C6 witness: two themes of the day come back, the earlier-dated first, while
\* the day's last instant is among them
C6_Witness ==
    /\ op.name = "get_scheduled_themes_for_date"
    /\ Len(ret) = 2
    /\ themes[ret[1]].schedule_date < themes[ret[2]].schedule_date
    /\ themes[ret[2]].schedule_date = (op.target_date + 1) * TicksPerDay - 1

\* get_overdue_themes(asOf) returns exactly the unsent themes dated strictly
\* before asOf, oldest date first; so a theme due on day d is returned for
\* every asOf from the start of day d + 1 on
OverdueExact ==
    op.name = "get_overdue_themes" =>
        /\ NoDuplicates(ret)
        /\ Range(ret) = { t \in DOMAIN themes :
                            OverdueIn(themes, t, op.current_datetime) }
        /\ \A i, j \in DOMAIN ret :
              i < j => themes[ret[i]].schedule_date <= themes[ret[j]].schedule_date
        /\ \A t \in DOMAIN themes, d \in Days :
              (DueIn(themes, t, d) /\ op.current_datetime >= (d + 1) * TicksPerDay)
                 => t \in Range(ret)

\* the last call wrote to theme t: sent it, deleted it or gave it another date
Rewrites(o, t) ==
    /\ o.name \in {"mark_as_sent", "delete_theme", "schedule_theme",
                   "unschedule_theme", "update_theme"}
    /\ o.theme_id = t

\* C7 as stated: the result is exact, and a theme that an overdue call returns
\* stays in the result of every later overdue call until it is marked sent.
C7_OverdueUntilSent ==
    /\ []OverdueExact
    /\ [][ \A t \in DOMAIN themes, a \in AsOfTimes :
             (OverdueIn(themes, t, a) /\ ~(t \in DOMAIN themes' /\ themes'[t].is_sent))
                => OverdueIn(themes', t, a) ]_vars

\* C7 amended: the result is exact, and a theme that an overdue call returns
\* stays in the result of every later overdue call until mark_as_sent,
\* delete_theme, schedule_theme, unschedule_theme or update_theme is applied to it.
C7_OverdueUntilRewritten ==
    /\ []OverdueExact
    /\ [][ \A t \in DOMAIN themes, a \in AsOfTimes :
             (OverdueIn(themes, t, a) /\ ~Rewrites(op', t))
                => OverdueIn(themes', t, a) ]_vars

\* C7 witness: overdue at the start of day 1 returns two themes of day 0, the
\* earlier-dated first, the later one dated on the last instant of day 0
C7_Witness ==
    /\ op.name = "get_overdue_themes"
    /\ op.current_datetime = TicksPerDay
    /\ Len(ret) = 2
    /\ themes[ret[1]].schedule_date < themes[ret[2]].schedule_date
    /\ themes[ret[2]].schedule_date = TicksPerDay - 1

\* the title duplicate_theme gives the copy
GivenOrSuffixedTitle(original, new_title) ==
    IF new_title.given /\ new_title.v # <<>>
    THEN new_title.v
    ELSE original.title \o <<" (copy)">>

\* what duplicate_theme does; sameTitle: the copy has the original's title
DuplicateContract(sameTitle) ==
    op'.name = "duplicate_theme" =>
        IF op'.theme_id \in DOMAIN themes
        THEN /\ ret' \notin DOMAIN themes
             /\ DOMAIN themes' = DOMAIN themes \cup {ret'}
             /\ \A t \in DOMAIN themes : themes'[t] = themes[t]
             /\ themes'[ret'].is_sent = FALSE
             /\ themes'[ret'].schedule_date = NullDate
             /\ themes'[ret'].text = themes[op'.theme_id].text
             /\ themes'[ret'].media = themes[op'.theme_id].media
             /\ themes'[ret'].buttons = themes[op'.theme_id].buttons
             /\ themes'[ret'].title =
                   IF sameTitle
                   THEN themes[op'.theme_id].title
                   ELSE GivenOrSuffixedTitle(themes[op'.theme_id], op'.new_title)
        ELSE /\ ret' = NullId
             /\ themes' = themes

\* C8 as stated: the copy is unsent, unscheduled and has the original's title,
\* text, media and buttons; for an unknown id nothing is created.
C8_DuplicateSameTitle == [][DuplicateContract(TRUE)]_vars

\* C8 amended: the copy is unsent, unscheduled and has the original's text,
\* media and buttons; its title is new_title when a non-empty one is given and
\* otherwise the original's title followed by " (копия)"; for an unknown id
\* nothing is created and None is returned.
C8_DuplicateQueuedCopy == [][DuplicateContract(FALSE)]_vars

\* C8 witness: a sent theme with a schedule date has been duplicated
C8_Witness ==
    /\ op.name = "duplicate_theme"
    /\ ret # NullId
    /\ themes[op.theme_id].is_sent
    /\ themes[op.theme_id].schedule_date # NullDate
    /\ ~themes[ret].is_sent
    /\ themes[ret].schedule_date = NullDate

----------------------------------------------------------------------------
(* Properties of UserService *)

\* the history of the user with this telegram id, in table tbl
HistoryIn(tbl, telegram_id) ==
    LET u == CHOOSE x \in DOMAIN tbl : tbl[x].telegram_id = telegram_id
    IN  tbl[u].daily_theme_history

C4_OneRowPerTaskAndRecipient ==
    \A T \in TaskIds, r \in TelegramIds :
        Cardinality({ i \in DOMAIN logs :
                        /\ logs[i].broadcast_task_id = T
                        /\ logs[i].telegram_id = r }) <= 1

\* C5: get_subscribed_users returns exactly the users that are subscribed and
\* active, each once.
C5_AudienceExact ==
    op.name = "get_subscribed_users" =>
        /\ NoDuplicates(ret)
        /\ \A i, j \in DOMAIN ret :
              i # j => users[ret[i]].telegram_id # users[ret[j]].telegram_id
        /\ Range(ret) = { u \in DOMAIN users :
                            users[u].is_subscribed /\ users[u].is_active }

\* C5 witness: one user is returned while a subscribed, deactivated one is not
C5_Witness ==
    /\ op.name = "get_subscribed_users"
    /\ Len(ret) = 1
    /\ \E u \in DOMAIN users : users[u].is_subscribed /\ ~users[u].is_active

\* the log rows of task T whose status is in the set st
RowsOf(T, st) ==
    Cardinality({ i \in DOMAIN logs :
                    logs[i].broadcast_task_id = T /\ logs[i].status \in st })

\* C9: a task's counters equal the counts of its log rows: sent_count all of
\* them, delivered_count the successes, fail_count the terminal failures.
C9_CountersMatchLog ==
    \A T \in DOMAIN tasks :
        /\ tasks[T].sent_count = RowsOf(T, {"sent", "delivered", "failed", "blocked"})
        /\ tasks[T].delivered_count = RowsOf(T, {"sent", "delivered"})
        /\ tasks[T].fail_count = RowsOf(T, {"failed", "blocked"})

\* C10: every log_delivery call adds exactly one row with the outcome it was
\* given, and no step changes or removes a row of the log.
C10_EveryCallAddsOneRow ==
    [][ /\ Len(logs') >= Len(logs)
        /\ SubSeq(logs', 1, Len(logs)) = logs
        /\ op'.name = "log_delivery" =>
              /\ Len(logs') = Len(logs) + 1
              /\ logs'[Len(logs')].telegram_id = op'.telegram_id
              /\ logs'[Len(logs')].status = op'.d.status ]_vars

\* the rows of a telegram id in a state of the users table
RowsFor(tbl, telegram_id) == { u \in DOMAIN tbl : tbl[u].telegram_id = telegram_id }

\* a user row stays, with its telegram id
RowsStay ==
    \A u \in DOMAIN users :
        /\ u \in DOMAIN users'
        /\ users'[u].telegram_id = users[u].telegram_id

\* deactivate_user clears is_active of the row and changes nothing else, and
\* nothing else clears it
OnlyDeactivateClears ==
    /\ op'.name = "deactivate_user" =>
          \A u \in RowsFor(users, op'.telegram_id) :
              users'[u] = [users[u] EXCEPT !.is_active = FALSE]
    /\ \A u \in DOMAIN users \cap DOMAIN users' :
          users[u].is_active /\ ~users'[u].is_active => op'.name = "deactivate_user"

\* C12: no operation removes a user row or changes its telegram id, so a row
\* exists for an id from its get_or_create_user on; deactivate_user keeps the
\* row and sets is_active false, and only deactivate_user does.
C12_NeverDeletedOnlyDeactivated ==
    /\ [](op.name = "get_or_create_user" => RowsFor(users, op.telegram_id) # {})
    /\ [][RowsStay /\ OnlyDeactivateClears]_vars

\* C12 witness: a user that has a history and a delivery log was deactivated
\* and its row is still stored
C12_Witness ==
    /\ op.name = "deactivate_user"
    /\ ret = TRUE
    /\ \E u \in RowsFor(users, op.telegram_id) :
          ~users[u].is_active /\ users[u].daily_theme_history # <<>>
    /\ logs # <<>>

\* once false, is_active stays false
StaysInactive ==
    \A u \in DOMAIN users :
        ~users[u].is_active => u \in DOMAIN users' /\ ~users'[u].is_active

\* a new row is active and not subscribed, and only update_subscription_status
\* turns is_subscribed on
SubscribedOnlyByStatusUpdate ==
    /\ \A u \in DOMAIN users' \ DOMAIN users :
          users'[u].is_active /\ ~users'[u].is_subscribed
    /\ \A u \in DOMAIN users \cap DOMAIN users' :
          ~users[u].is_subscribed /\ users'[u].is_subscribed
              => op'.name = "update_subscription_status"

\* C15: deactivate_user leaves is_active false and no later operation sets it
\* back, and get_subscribed_users returns only rows with is_active and
\* is_subscribed true, so a deactivated user is never returned again; a new
\* user is active and unsubscribed and becomes subscribed only through
\* update_subscription_status.
C15_DeactivationIsPermanent ==
    /\ [](op.name = "deactivate_user" =>
            \A u \in RowsFor(users, op.telegram_id) : ~users[u].is_active)
    /\ [](op.name = "get_subscribed_users" =>
            \A i \in DOMAIN ret : users[ret[i]].is_active /\ users[ret[i]].is_subscribed)
    /\ [][StaysInactive /\ SubscribedOnlyByStatusUpdate]_vars

\* C15 witness: a deactivated user that made a later contact and was then
\* set subscribed is not in the audience
C15_Witness ==
    /\ op.name = "get_subscribed_users"
    /\ ret = <<>>
    /\ \E u \in DOMAIN users :
          /\ ~users[u].is_active
          /\ users[u].is_subscribed
          /\ users[u].username = "u"

\* the finished add_theme_to_history calls that found their user
Added ==
    { c \in DOMAIN calls : /\ calls[c].name = "add_theme_to_history"
                           /\ calls[c].pc = "done"
                           /\ calls[c].ret = "True" }

\* C13: when two add_theme_to_history calls for one user with different theme
\* ids have both finished, both ids are in the user's history, whatever the
\* order of their read and write steps.
C13_NoLostUpdate ==
    \A c1, c2 \in Added :
        /\ calls[c1].telegram_id = calls[c2].telegram_id
        /\ calls[c1].theme_id # calls[c2].theme_id
        => {calls[c1].theme_id, calls[c2].theme_id}
              \subseteq Range(HistoryIn(users, calls[c1].telegram_id))

\* no two rows have the same telegram id
OneRowPerTelegramId ==
    \A u1, u2 \in DOMAIN users :
        users[u1].telegram_id = users[u2].telegram_id => u1 = u2

\* a finished call that found a row returned that row
FoundIsReturned ==
    \A c \in DOMAIN calls :
        /\ calls[c].name = "get_or_create_user"
        /\ calls[c].pc = "done"
        /\ calls[c].user # NullId
        => /\ calls[c].ret = ToString(calls[c].user)
           /\ calls[c].user \in RowsFor(users, calls[c].telegram_id)

\* the SELECT finds the row of the id when there is one and then the call
\* does not go on to insert; a row is added only by the INSERT of a call for
\* an id that has no row
CreatesOnlyWhenAbsent ==
    LET call == calls'[op'.caller] IN
    /\ op'.name = "get_or_create_user.select" =>
          /\ users' = users
          /\ RowsFor(users, call.telegram_id) # {} =>
                call.user \in RowsFor(users, call.telegram_id) /\ call.pc # "insert"
    /\ DOMAIN users' # DOMAIN users =>
          /\ op'.name = "get_or_create_user.insert"
          /\ RowsFor(users, call.telegram_id) = {}
          /\ Cardinality(DOMAIN users') = Cardinality(DOMAIN users) + 1

\* C14: in every state there is at most one user row per telegram id, also
\* when concurrent first contacts for one id both find no row; a call for an
\* id that has a row returns that row and creates none.
C14_OneRowPerTelegramId ==
    /\ [](OneRowPerTelegramId /\ FoundIsReturned)
    /\ [][CreatesOnlyWhenAbsent]_vars

\* C14 witness: two first contacts for one id both found no row; one stored
\* the row and the INSERT of the other failed
C14_Witness ==
    \E c1, c2 \in DOMAIN calls :
        /\ calls[c1].name = "get_or_create_user" /\ calls[c1].pc = "done"
        /\ calls[c2].name = "get_or_create_user" /\ calls[c2].pc = "done"
        /\ calls[c1].telegram_id = calls[c2].telegram_id
        /\ calls[c1].user = NullId /\ calls[c2].user = NullId
        /\ calls[c1].ret = "IntegrityError"
        /\ calls[c2].ret # "IntegrityError"
        /\ Cardinality(RowsFor(users, calls[c1].telegram_id)) = 1

----------------------------------------------------------------------------
(* Properties of ConfigService *)

\* the values the rows of a key hold in a state of the Config table
ValuesOf(tbl, key) == { tbl[c].value : c \in { d \in DOMAIN tbl : tbl[d].key = key } }

ConfigSetters == {"set_config", "set_rate_limit", "set_required_channels",
                  "set_daily_broadcast_time", "set_timezone", "set_welcome_message"}

\* what each call leaves behind or returns
ConfigContract ==
    /\ \A c1, c2 \in DOMAIN config : config[c1].key = config[c2].key => c1 = c2
    /\ op.name \in ConfigSetters => ValuesOf(config, op.key) = {op.value}
    /\ op.name = "delete_config" => ValuesOf(config, op.key) = {}
    /\ op.name = "get_config" =>
          IF ret = NullStr
          THEN ValuesOf(config, op.key) \subseteq {NullStr}
          ELSE ValuesOf(config, op.key) = {ret}
    /\ op.name = "get_rate_limit" /\ ValuesOf(config, "rate_limit") = {} => ret = 30
    /\ op.name = "get_daily_broadcast_time"
          /\ ValuesOf(config, "daily_broadcast_time") = {} => ret = "09:00"
    /\ op.name = "get_timezone" /\ ValuesOf(config, "timezone") = {}
          => ret = "Europe/Moscow"
    /\ op.name = "get_required_channels" /\ ValuesOf(config, "required_channels") = {}
          => ret = <<>>
    /\ op.name \in {"get_welcome_message", "get_subscription_required_message"}
          /\ ValuesOf(config, op.key) = {} => ret = DefaultMessage(op.key)

\* a call touches the key it names and no other; a read touches none
ConfigFrame ==
    /\ \A k \in ConfigKeys : k # op'.key => ValuesOf(config', k) = ValuesOf(config, k)
    /\ op'.name \notin ConfigSetters \cup {"delete_config"} => config' = config

\* C11: the Config table holds at most one row per key; set_config leaves its
\* value as the key's only value and delete_config leaves the key absent, no
\* call changes another key and a read changes nothing, so a read of a key
\* returns the value of the last set_config for it; the typed getters return
\* their defaults when the key is absent.
C11_LastWriteWinsWithDefaults == []ConfigContract /\ [][ConfigFrame]_vars

\* C11 witness: a key that was written is read back beside another stored key
C11_Witness ==
    /\ op.name = "get_config"
    /\ op.key = "rate_limit"
    /\ ret = "abc"
    /\ Cardinality(DOMAIN config) = 2

====
